---- MODULE Spec2Model ----
(***************************************************************************)
(* A model of audiometa (src/main.rs): file discovery, per-file metadata   *)
(* extraction, the batch driver of main and the three renderers.           *)
(*                                                                         *)
(* Text is a sequence of atoms.  An atom is a string standing for one or   *)
(* more characters that the program never splits: " " and "\t" are         *)
(* whitespace, "." is the extension dot, "/" the path separator, "," the   *)
(* comma and "\n" the line break.  A path, a stdin line and the two output *)
(* streams are all sequences of atoms.                                     *)
(*                                                                         *)
(* Option<T> is a sequence of length at most one: None is <<>> and         *)
(* Some(v) is <<v>>.                                                       *)
(***************************************************************************)
EXTENDS Integers, Sequences, FiniteSets, TLC

VARIABLES
  cli,          \* the parsed Cli: files, format, basic, quiet, keep_going, recursive
  stdin,        \* [terminal |-> BOOLEAN, lines |-> sequence of lines or READ_ERR]
  pc,           \* main's position: "start", "collect", "process", "render", "finish", "done"
  files,        \* main's `files` after discovery
  idx,          \* position of the `for file in &files` loop (next file to process)
  results,      \* main's `results`
  had_errors,   \* main's `had_errors`
  stdout,       \* everything printed with println!
  stderr,       \* everything printed with eprintln!
  exit_code,    \* the process exit code, <<>> while running
  extracted,    \* history: the calls of process_file in call order, each
                \* [path, ok, info]: the argument and what the call returned
  rendered      \* history: the sequences handed to a renderer, in call order

vars == <<cli, stdin, pc, files, idx, results, had_errors, stdout, stderr,
          exit_code, extracted, rendered>>

(***************************************************************************)
(* Bounds of the model.                                                    *)
(***************************************************************************)
MaxArgs == 3
MaxLines == 2

None == <<>>
Some(v) == <<v>>

NL == "\n"

RECURSIVE Concat(_)
Concat(ss) == IF ss = <<>> THEN <<>> ELSE Head(ss) \o Concat(Tail(ss))

SeqsUpTo(S, n) == UNION {[1..k -> S] : k \in 0..n}

(***************************************************************************)
(* The file system and the probe's answers (the environment).              *)
(***************************************************************************)
FileA == <<"a", ".", "mp3">>
FileB == <<"b", ",", "c", ".", "FLAC">>
FileZ == <<"z", ".", "ogg">>
FileBad == <<"bad", ".", "wav">>
FileTxt == <<"n", ".", "txt">>
DirD == <<"d">>
DirSong == <<"d", "/", "s", ".", "Mp3">>
DirNote == <<"d", "/", "t", ".", "txt">>
Gone == <<"gone", ".", "wav">>

RegularFiles == {FileA, FileB, FileZ, FileBad, FileTxt, DirSong, DirNote}
Directories == {DirD}

IsFile(path) == path \in RegularFiles
IsDir(path) == path \in Directories
Exists(path) == IsFile(path) \/ IsDir(path)

\* walkdir::WalkDir::new(path): the entries below a directory, in walk order,
\* the directory itself first.
WalkDir(path) == IF path = DirD THEN <<DirD, DirSong, DirNote>> ELSE <<path>>

ReadErr == <<"READ_ERR">>

(***************************************************************************)
(* Path::extension and is_audio_file.                                      *)
(***************************************************************************)
RECURSIVE LastIndexOf(_, _)
\* the last position of atom c in s, 0 when there is none
LastIndexOf(s, c) ==
  IF s = <<>> THEN 0
  ELSE IF s[Len(s)] = c THEN Len(s)
  ELSE LastIndexOf(SubSeq(s, 1, Len(s) - 1), c)

FileName(path) == SubSeq(path, LastIndexOf(path, "/") + 1, Len(path))

\* None without a file name, without a dot, or when the only dot leads the name
Extension(path) ==
  LET name == FileName(path)
      dot == LastIndexOf(name, ".")
  IN IF name = <<>> \/ dot <= 1 THEN None
     ELSE Some(SubSeq(name, dot + 1, Len(name)))

ToLowercase(atom) ==
  CASE atom = "FLAC" -> "flac"
    [] atom = "Mp3" -> "mp3"
    [] OTHER -> atom

AudioExtensions == {"mp3", "flac", "ogg", "wav", "aac", "m4a", "wma"}

is_audio_file(path) ==
  LET ext == Extension(path)
  IN IF ext = None THEN FALSE
     ELSE /\ Len(ext[1]) = 1
          /\ ToLowercase(ext[1][1]) \in AudioExtensions

(***************************************************************************)
(* str::trim and collect_from_stdin.                                       *)
(***************************************************************************)
IsWhitespace(atom) == atom \in {" ", "\t"}

RECURSIVE TrimStart(_)
TrimStart(s) ==
  IF s # <<>> /\ IsWhitespace(Head(s)) THEN TrimStart(Tail(s)) ELSE s

RECURSIVE TrimEnd(_)
TrimEnd(s) ==
  IF s # <<>> /\ IsWhitespace(s[Len(s)]) THEN TrimEnd(SubSeq(s, 1, Len(s) - 1)) ELSE s

Trim(s) == TrimEnd(TrimStart(s))

StdinWarning(path) == <<"Warning: File not found: ">> \o path \o <<NL>>

RECURSIVE collect_from_stdin_StopAtBadLine(_)
\* a line that names no audio file ends the collection with Err
collect_from_stdin_StopAtBadLine(lines) ==
  IF lines = <<>> THEN [ok |-> TRUE, files |-> <<>>, err |-> <<>>]
  ELSE IF Head(lines) = ReadErr THEN [ok |-> FALSE, files |-> <<>>, err |-> <<>>]
  ELSE
    LET path == Trim(Head(lines))
        keep == IsFile(path) /\ is_audio_file(path)
        warn == IF ~keep /\ ~Exists(path) THEN StdinWarning(path) ELSE <<>>
        rest == collect_from_stdin_StopAtBadLine(Tail(lines))
    IN IF ~keep THEN [ok |-> FALSE, files |-> <<>>, err |-> warn]
       ELSE [ok |-> rest.ok,
             files |-> IF rest.ok THEN <<path>> \o rest.files ELSE <<>>,
             err |-> rest.err]

RECURSIVE collect_from_stdin(_)
\* [ok, files, err]: err lists what eprintln! wrote while the lines were mapped.
\* The first line that cannot be read ends the collection with Err.
collect_from_stdin(lines) ==
  IF lines = <<>> THEN [ok |-> TRUE, files |-> <<>>, err |-> <<>>]
  ELSE IF Head(lines) = ReadErr THEN [ok |-> FALSE, files |-> <<>>, err |-> <<>>]
  ELSE
    LET path == Trim(Head(lines))
        keep == IsFile(path) /\ is_audio_file(path)
        warn == IF ~keep /\ ~Exists(path) THEN StdinWarning(path) ELSE <<>>
        rest == collect_from_stdin(Tail(lines))
    IN [ok |-> rest.ok,
        files |-> IF rest.ok THEN (IF keep THEN <<path>> ELSE <<>>) \o rest.files
                  ELSE <<>>,
        err |-> warn \o rest.err]

(***************************************************************************)
(* collect_audio_files.                                                    *)
(***************************************************************************)
DirectoryError(path) ==
  path \o <<" is a directory (use --recursive to process directories)">>

NotFoundError(path) == <<"File not found: ">> \o path

RECURSIVE FilterAudioFiles(_)
FilterAudioFiles(entries) ==
  IF entries = <<>> THEN <<>>
  ELSE (IF IsFile(Head(entries)) /\ is_audio_file(Head(entries))
        THEN <<Head(entries)>> ELSE <<>>) \o FilterAudioFiles(Tail(entries))

RECURSIVE CollectLoop(_, _, _)
\* the `for path in paths` loop, `acc` being `files` so far
CollectLoop(paths, recursive, acc) ==
  IF paths = <<>> THEN [ok |-> TRUE, files |-> acc, msg |-> <<>>]
  ELSE
    LET path == Head(paths) IN
    IF IsFile(path) THEN
      CollectLoop(Tail(paths), recursive,
                  IF is_audio_file(path) THEN Append(acc, path) ELSE acc)
    ELSE IF IsDir(path) THEN
      IF recursive
      THEN CollectLoop(Tail(paths), recursive, acc \o FilterAudioFiles(WalkDir(path)))
      ELSE [ok |-> FALSE, files |-> <<>>, msg |-> DirectoryError(path)]
    ELSE [ok |-> FALSE, files |-> <<>>, msg |-> NotFoundError(path)]

RECURSIVE SkipMissing(_)
SkipMissing(paths) ==
  IF paths = <<>> THEN <<>>
  ELSE (IF Exists(Head(paths)) THEN <<Head(paths)>> ELSE <<>>) \o SkipMissing(Tail(paths))

RECURSIVE SkipDirectories(_)
SkipDirectories(paths) ==
  IF paths = <<>> THEN <<>>
  ELSE (IF IsDir(Head(paths)) THEN <<>> ELSE <<Head(paths)>>) \o SkipDirectories(Tail(paths))

\* a missing path is passed over instead of ending the discovery
collect_audio_files_SkipMissing(paths, recursive) ==
  CollectLoop(SkipMissing(paths), recursive, <<>>)

\* without --recursive a directory is passed over instead of ending the discovery
collect_audio_files_SkipDir(paths, recursive) ==
  CollectLoop(IF recursive THEN paths ELSE SkipDirectories(paths), recursive, <<>>)

collect_audio_files(paths, recursive) == CollectLoop(paths, recursive, <<>>)

(***************************************************************************)
(* The probe (symphonia) as the environment answers it for each file.      *)
(***************************************************************************)
Track(sample_rate, channels, time_base, n_frames, codec) ==
  [sample_rate |-> sample_rate, channels |-> channels, time_base |-> time_base,
   n_frames |-> n_frames, codec |-> codec]

TimeBase(numer, denom) == [numer |-> numer, denom |-> denom]

ProbeTag(std_key, key, value) == [std_key |-> std_key, key |-> key, value |-> value]

\* fs::metadata(path)?.len()
FileSize(path) ==
  CASE path = FileA -> 40000
    [] path = FileB -> 9000
    [] path = FileZ -> 1000
    [] path = FileBad -> 12
    [] path = DirSong -> 300
    [] OTHER -> 0

\* get_probe().format(..): [ok, tracks, tags]
Probe(path) ==
  CASE path = FileA ->
         [ok |-> TRUE,
          tracks |-> <<Track(Some(44100), Some(2), Some(TimeBase(1, 10)), Some(50), "mp3")>>,
          tags |-> <<ProbeTag(Some("TrackTitle"), "TIT2", "Song"),
                     ProbeTag(None, "TRACK-TITLE", "Tune")>>]
    [] path = FileB ->
         [ok |-> TRUE,
          tracks |-> <<Track(Some(48000), None, None, Some(70), "flac")>>,
          tags |-> <<ProbeTag(None, "Artist", "Band")>>]
    [] path = FileZ ->
         [ok |-> TRUE,
          tracks |-> <<Track(None, Some(1), Some(TimeBase(1, 10)), Some(5), "vorbis")>>,
          tags |-> <<>>]
    [] path = DirSong -> [ok |-> TRUE, tracks |-> <<>>, tags |-> <<>>]
    [] OTHER -> [ok |-> FALSE, tracks |-> <<>>, tags |-> <<>>]

(***************************************************************************)
(* normalize_key.                                                          *)
(***************************************************************************)
\* convert_case's to_case(Case::Snake) on the keys the probe answers with
ToSnakeCase(key) ==
  CASE key = "TrackTitle" -> "track_title"
    [] key = "TRACK-TITLE" -> "track_title"
    [] key = "Artist" -> "artist"
    [] OTHER -> key

normalize_key(tag) ==
  ToSnakeCase(IF tag.std_key # None THEN tag.std_key[1] ELSE tag.key)

(***************************************************************************)
(* f64 arithmetic of the bitrate and the `as u32` cast.  An f64 is         *)
(* [kind, num, den]: a finite non-negative rational num/den, +inf or NaN.  *)
(* A u32 is [hi, lo] in base 65536, so that u32::MAX is representable.     *)
(***************************************************************************)
F64(n) == [kind |-> "fin", num |-> n, den |-> 1]

\* IEEE division of non-negative values: x/0 is +inf, 0/0 is NaN
F64Div(a, b) ==
  IF a.kind # "fin" THEN a
  ELSE IF b.num = 0 THEN (IF a.num = 0 THEN [a EXCEPT !.kind = "nan"]
                                       ELSE [a EXCEPT !.kind = "inf"])
  ELSE [kind |-> "fin", num |-> a.num * b.den, den |-> a.den * b.num]

F64Mul(a, b) ==
  IF a.kind # "fin" THEN a
  ELSE [kind |-> "fin", num |-> a.num * b.num, den |-> a.den * b.den]

U32(v) == [hi |-> v \div 65536, lo |-> v % 65536]
U32Max == [hi |-> 65535, lo |-> 65535]

\* `x as u32`: truncates, saturates, and maps NaN to 0
AsU32(x) ==
  CASE x.kind = "nan" -> U32(0)
    [] x.kind = "inf" -> U32Max
    [] OTHER -> LET q == x.num \div x.den
                IN IF q \div 65536 > 65535 THEN U32Max ELSE U32(q)

\* TimeBase::calc_time(ts).seconds: the whole seconds of ts * numer / denom
CalcTimeSeconds(time_base, ts) == (ts * time_base.numer) \div time_base.denom

(***************************************************************************)
(* process_file.                                                           *)
(***************************************************************************)
RECURSIVE CollectTags(_)
CollectTags(tags) ==
  IF tags = <<>> THEN <<>>
  ELSE <<<<normalize_key(Head(tags)), Head(tags).value>>>> \o CollectTags(Tail(tags))

\* lines 169-176: [duration_seconds, avg_bitrate_kbps]
DurationAndBitrate(params, file_size) ==
  IF params.time_base # None /\ params.n_frames # None
  THEN LET seconds == CalcTimeSeconds(params.time_base[1], params.n_frames[1])
           bitrate_bps == F64Div(F64Mul(F64(file_size), F64(8)), F64(seconds))
       IN [duration_seconds |-> Some(seconds),
           avg_bitrate_kbps |-> Some(AsU32(F64Div(bitrate_bps, F64(1000))))]
  ELSE [duration_seconds |-> None, avg_bitrate_kbps |-> None]

\* [ok, info, msg]
process_file(path) ==
  LET failed(msg) == [ok |-> FALSE, info |-> <<>>, msg |-> msg]
      probed == Probe(path)
  IN IF ~IsFile(path) THEN failed(<<"No such file or directory">>)
     ELSE IF ~probed.ok THEN failed(<<"unsupported format">>)
     ELSE IF probed.tracks = <<>> THEN failed(<<"No supported audio track">>)
     ELSE
       LET params == probed.tracks[1]
           derived == DurationAndBitrate(params, FileSize(path))
       IN [ok |-> TRUE,
           info |-> [file_path |-> path,
                     sample_rate |-> params.sample_rate,
                     channels |-> params.channels,
                     duration_seconds |-> derived.duration_seconds,
                     avg_bitrate_kbps |-> derived.avg_bitrate_kbps,
                     tags |-> CollectTags(probed.tags),
                     file_size_bytes |-> FileSize(path),
                     codec |-> Some(params.codec)],
           msg |-> <<>>]

(***************************************************************************)
(* Formatting (std::fmt).                                                  *)
(***************************************************************************)
\* Display of an integer
FmtInt(v) == <<ToString(v)>>

\* `{v:.2}` of an integer: std::fmt ignores the precision of integral types
FmtIntPrecision(v, precision) == <<ToString(v)>>

\* `{v:.2}` as it prints a float holding the whole number v
FmtFloatPrecision2(v) == <<ToString(v), ".", "00">>

Pad4(n) ==
  (IF n < 10 THEN "000" ELSE IF n < 100 THEN "00" ELSE IF n < 1000 THEN "0" ELSE "")
    \o ToString(n)

\* Display of a u32 [hi, lo], in decimal limbs of 10000
FmtU32(u) ==
  LET low == u.hi * 5536 + u.lo
      top == u.hi * 6 + low \div 10000
  IN IF top = 0 THEN <<ToString(low % 10000)>>
     ELSE <<ToString(top) \o Pad4(low % 10000)>>

(***************************************************************************)
(* output_text.                                                            *)
(***************************************************************************)
RECURSIVE TextTags(_)
TextTags(tags) ==
  IF tags = <<>> THEN <<>>
  ELSE <<Head(tags)[1], ": ", Head(tags)[2], NL>> \o TextTags(Tail(tags))

TextBlock(info, basic_only) ==
  <<"file: ">> \o info.file_path \o <<NL>>
  \o (IF info.codec # None THEN <<"codec: ", info.codec[1], NL>> ELSE <<>>)
  \o (IF info.sample_rate # None
      THEN <<"sample_rate: ">> \o FmtInt(info.sample_rate[1]) \o <<NL>> ELSE <<>>)
  \o (IF info.channels # None
      THEN <<"channels: ">> \o FmtInt(info.channels[1]) \o <<NL>> ELSE <<>>)
  \o (IF info.duration_seconds # None
      THEN <<"duration: ">> \o FmtIntPrecision(info.duration_seconds[1], 2) \o <<"s", NL>>
      ELSE <<"duration: ", "unknown", NL>>)
  \o (IF info.avg_bitrate_kbps # None
      THEN <<"avg_bitrate_kbps: ">> \o FmtU32(info.avg_bitrate_kbps[1]) \o <<NL>>
      ELSE <<>>)
  \o <<"file_size_bytes: ">> \o FmtInt(info.file_size_bytes) \o <<NL>>
  \o (IF ~basic_only THEN TextTags(info.tags) ELSE <<>>)

RECURSIVE TextFrom(_, _, _)
TextFrom(infos, i, basic_only) ==
  IF i > Len(infos) THEN <<>>
  ELSE (IF i > 1 THEN <<NL>> ELSE <<>>)
       \o TextBlock(infos[i], basic_only) \o TextFrom(infos, i + 1, basic_only)

output_text(infos, basic_only) == TextFrom(infos, 1, basic_only)

(***************************************************************************)
(* output_csv.                                                             *)
(***************************************************************************)
CsvHeader ==
  <<"file_path", ",", "codec", ",", "sample_rate", ",", "channels", ",",
    "duration_seconds", ",", "avg_bitrate_kbps", ",", "file_size_bytes", NL>>

CsvRow(info) ==
  info.file_path \o <<",">>
  \o (IF info.codec # None THEN <<info.codec[1]>> ELSE <<>>) \o <<",">>
  \o (IF info.sample_rate # None THEN FmtInt(info.sample_rate[1]) ELSE <<>>) \o <<",">>
  \o (IF info.channels # None THEN FmtInt(info.channels[1]) ELSE <<>>) \o <<",">>
  \o (IF info.duration_seconds # None
      THEN FmtIntPrecision(info.duration_seconds[1], 2) ELSE <<>>) \o <<",">>
  \o (IF info.avg_bitrate_kbps # None THEN FmtU32(info.avg_bitrate_kbps[1]) ELSE <<>>)
  \o <<",">>
  \o FmtInt(info.file_size_bytes) \o <<NL>>

RECURSIVE CsvRows(_)
CsvRows(infos) ==
  IF infos = <<>> THEN <<>> ELSE CsvRow(Head(infos)) \o CsvRows(Tail(infos))

output_csv(infos) == CsvHeader \o CsvRows(infos)

(***************************************************************************)
(* output_json.  Objects are printed with their keys sorted (serde_json's  *)
(* default map); a later tag replaces an earlier one of the same key.      *)
(***************************************************************************)
JsonString(atoms) == <<"\"">> \o atoms \o <<"\"">>

JsonOptionInt(opt) == IF opt = None THEN <<"null">> ELSE FmtInt(opt[1])

JsonOptionU32(opt) == IF opt = None THEN <<"null">> ELSE FmtU32(opt[1])

JsonOptionString(opt) == IF opt = None THEN <<"null">> ELSE JsonString(<<opt[1]>>)

RECURSIVE TagMap(_)
\* the tags as a key -> value map: one pair per key, holding the key's last value
TagMap(tags) ==
  IF tags = <<>> THEN <<>>
  ELSE LET rest == TagMap(Tail(tags))
       IN IF \E j \in 1..Len(rest) : rest[j][1] = Head(tags)[1]
          THEN rest ELSE <<Head(tags)>> \o rest

RECURSIVE JsonTagEntries(_)
JsonTagEntries(map) ==
  IF map = <<>> THEN <<>>
  ELSE <<"      ">> \o JsonString(<<Head(map)[1]>>) \o <<": ">>
       \o JsonString(<<Head(map)[2]>>)
       \o (IF Len(map) > 1 THEN <<",">> ELSE <<>>) \o <<NL>>
       \o JsonTagEntries(Tail(map))

JsonTags(tags) ==
  IF tags = <<>> THEN <<"{}">>
  ELSE <<"{", NL>> \o JsonTagEntries(TagMap(tags)) \o <<"    }">>

JsonObject(info) ==
     <<"  {", NL>>
     \o <<"    \"avg_bitrate_kbps\": ">> \o JsonOptionU32(info.avg_bitrate_kbps) \o <<",", NL>>
     \o <<"    \"channels\": ">> \o JsonOptionInt(info.channels) \o <<",", NL>>
     \o <<"    \"codec\": ">> \o JsonOptionString(info.codec) \o <<",", NL>>
     \o <<"    \"duration_seconds\": ">> \o JsonOptionInt(info.duration_seconds) \o <<",", NL>>
     \o <<"    \"file_path\": ">> \o JsonString(info.file_path) \o <<",", NL>>
     \o <<"    \"file_size_bytes\": ">> \o FmtInt(info.file_size_bytes) \o <<",", NL>>
     \o <<"    \"sample_rate\": ">> \o JsonOptionInt(info.sample_rate) \o <<",", NL>>
     \o <<"    \"tags\": ">> \o JsonTags(info.tags) \o <<NL>>
     \o <<"  }">>

RECURSIVE JsonObjects(_)
JsonObjects(infos) ==
  IF infos = <<>> THEN <<>>
  ELSE JsonObject(Head(infos)) \o (IF Len(infos) > 1 THEN <<",">> ELSE <<>>) \o <<NL>>
       \o JsonObjects(Tail(infos))

output_json(infos) ==
  IF infos = <<>> THEN <<"[]", NL>>
  ELSE <<"[", NL>> \o JsonObjects(infos) \o <<"]", NL>>

Render(format, infos, basic) ==
  CASE format = "Text" -> output_text(infos, basic)
    [] format = "Json" -> output_json(infos)
    [] format = "Csv" -> output_csv(infos)

(***************************************************************************)
(* main.                                                                   *)
(***************************************************************************)
ArgPaths == {FileA, FileB, FileZ, FileBad, FileTxt, DirD, Gone}

StdinLines ==
  {<<" ", "a", ".", "mp3", "\t">>, FileB, FileBad, FileTxt, DirD, Gone, <<" ">>, ReadErr}

Formats == {"Text", "Json", "Csv"}

Init ==
  /\ cli \in [files : SeqsUpTo(ArgPaths, MaxArgs), format : Formats, basic : BOOLEAN,
              quiet : BOOLEAN, keep_going : BOOLEAN, recursive : BOOLEAN]
  /\ stdin \in [terminal : BOOLEAN, lines : SeqsUpTo(StdinLines, MaxLines)]
  \* stdin is read only when no path is given, and a terminal is never read
  /\ (cli.files # <<>> \/ stdin.terminal) => stdin.lines = <<>>
  /\ cli.files # <<>> => stdin.terminal
  /\ pc = "start"
  /\ files = <<>>
  /\ idx = 1
  /\ results = <<>>
  /\ had_errors = FALSE
  /\ stdout = <<>>
  /\ stderr = <<>>
  /\ exit_code = None
  /\ extracted = <<>>
  /\ rendered = <<>>

use_stdin == cli.files = <<>>

\* eprintln!(..) under `if !cli.quiet`
Eprintln(msg) == IF cli.quiet THEN <<>> ELSE msg \o <<NL>>

Exit(code) == /\ exit_code' = Some(code)
              /\ pc' = "done"

\* lines 265-274
Start ==
  /\ pc = "start"
  /\ IF use_stdin /\ stdin.terminal
     THEN /\ stderr' = stderr
                 \o Eprintln(<<"Error: No files provided and no data available on stdin">>)
          /\ Exit(1)
     ELSE /\ pc' = "collect"
          /\ UNCHANGED <<stderr, exit_code>>
  /\ UNCHANGED <<cli, stdin, files, idx, results, had_errors, stdout, extracted, rendered>>

\* lines 276-297
Collect ==
  /\ pc = "collect"
  /\ LET found == IF use_stdin
                  THEN LET r == collect_from_stdin(stdin.lines)
                       IN [ok |-> r.ok, files |-> r.files, printed |-> r.err,
                           msg |-> <<"stream did not contain valid UTF-8">>]
                  ELSE LET r == collect_audio_files(cli.files, cli.recursive)
                       IN [ok |-> r.ok, files |-> r.files, printed |-> <<>>,
                           msg |-> r.msg]
     IN IF ~found.ok
        THEN /\ stderr' = stderr \o found.printed \o Eprintln(<<"Error: ">> \o found.msg)
             /\ Exit(1)
             /\ UNCHANGED files
        ELSE IF found.files = <<>>
        THEN /\ stderr' = stderr \o found.printed
                                 \o Eprintln(<<"Error: No audio files found">>)
             /\ Exit(1)
             /\ UNCHANGED files
        ELSE /\ stderr' = stderr \o found.printed
             /\ files' = found.files
             /\ pc' = "process"
             /\ UNCHANGED exit_code
  /\ UNCHANGED <<cli, stdin, idx, results, had_errors, stdout, extracted, rendered>>

\* line 310: whether a failed extraction ends the run
AbortOnError_Never(keep_going) == FALSE

AbortOnError_Always(keep_going) == TRUE

AbortOnError(keep_going) == ~keep_going

\* lines 325-327: the exit code when main returns
FinalExitCode_Zero(errors) == 0

FinalExitCode(errors) == IF errors THEN 1 ELSE 0

\* lines 302-315: one iteration of `for file in &files`
ProcessNext ==
  /\ pc = "process"
  /\ idx <= Len(files)
  /\ LET file == files[idx]
         r == process_file(file)
     IN /\ extracted' = Append(extracted, [path |-> file, ok |-> r.ok, info |-> r.info])
        /\ IF r.ok
           THEN /\ results' = Append(results, r.info)
                /\ idx' = idx + 1
                /\ pc' = IF idx + 1 > Len(files) THEN "render" ELSE "process"
                /\ UNCHANGED <<had_errors, stderr, exit_code>>
           ELSE /\ had_errors' = TRUE
                /\ stderr' = stderr
                       \o Eprintln(<<"Error with ">> \o file \o <<": ">> \o r.msg)
                /\ IF AbortOnError(cli.keep_going)
                   THEN /\ Exit(1)
                        /\ UNCHANGED idx
                   ELSE /\ idx' = idx + 1
                        /\ pc' = IF idx + 1 > Len(files) THEN "render" ELSE "process"
                        /\ UNCHANGED exit_code
                /\ UNCHANGED results
  /\ UNCHANGED <<cli, stdin, files, stdout, rendered>>

\* lines 317-323
RenderResults ==
  /\ pc = "render"
  /\ IF results # <<>>
     THEN /\ stdout' = stdout \o Render(cli.format, results, cli.basic)
          /\ rendered' = Append(rendered, results)
     ELSE UNCHANGED <<stdout, rendered>>
  /\ pc' = "finish"
  /\ UNCHANGED <<cli, stdin, files, idx, results, had_errors, stderr, exit_code, extracted>>

\* lines 325-328
Finish ==
  /\ pc = "finish"
  /\ Exit(FinalExitCode(had_errors))
  /\ UNCHANGED <<cli, stdin, files, idx, results, had_errors, stdout, stderr,
                 extracted, rendered>>

Next == Start \/ Collect \/ ProcessNext \/ RenderResults \/ Finish

Spec == Init /\ [][Next]_vars

(***************************************************************************)
(* Helpers of the properties.                                              *)
(***************************************************************************)
Min(S) == CHOOSE x \in S : \A y \in S : x <= y
Max(S) == CHOOSE x \in S : \A y \in S : x >= y

RECURSIVE SplitOn(_, _)
\* the pieces of s between the occurrences of sep (one more piece than occurrences)
SplitOn(s, sep) ==
  LET at == {i \in 1..Len(s) : s[i] = sep}
  IN IF at = {} THEN <<s>>
     ELSE <<SubSeq(s, 1, Min(at) - 1)>> \o SplitOn(SubSeq(s, Min(at) + 1, Len(s)), sep)

\* the lines of an output stream, each without its line break
LinesOf(out) ==
  LET pieces == SplitOn(out, NL)
  IN IF pieces[Len(pieces)] = <<>> THEN SubSeq(pieces, 1, Len(pieces) - 1) ELSE pieces

Contains(s, atom) == \E i \in 1..Len(s) : s[i] = atom

IsPrefix(p, s) == Len(p) <= Len(s) /\ SubSeq(s, 1, Len(p)) = p

Succeeded(call) == call.ok

PathsOf(calls) == [i \in 1..Len(calls) |-> calls[i].path]
InfosOf(calls) == [i \in 1..Len(calls) |-> calls[i].info]

Failures(calls) == {i \in 1..Len(calls) : ~calls[i].ok}

\* what the run discovers, as a function of its input alone
Discovered ==
  IF use_stdin THEN collect_from_stdin(stdin.lines)
  ELSE collect_audio_files(cli.files, cli.recursive)

(***************************************************************************)
(* C1: whenever the computed duration of a processed file is 0 whole       *)
(* seconds, the resulting AudioInfo has no avg_bitrate_kbps.               *)
(***************************************************************************)
C1_NoBitrateAtZeroDuration ==
  \A i \in 1..Len(results) :
    results[i].duration_seconds = Some(0) => results[i].avg_bitrate_kbps = None

(***************************************************************************)
(* C2: without keep_going, the first failed extraction ends the run at     *)
(* once with exit code 1: the files are handed to the extractor in         *)
(* discovery order, none after a failure, and nothing is rendered.         *)
(***************************************************************************)
C2_AbortAtFirstFailure ==
  ~cli.keep_going =>
    /\ PathsOf(extracted) = SubSeq(files, 1, Len(extracted))
    /\ \A i \in Failures(extracted) : i = Len(extracted)
    /\ Failures(extracted) # {} =>
         /\ pc = "done"
         /\ exit_code = Some(1)
         /\ stdout = <<>>
         /\ rendered = <<>>

C2_Witness ==
  /\ ~cli.keep_going
  /\ Len(files) = 3
  /\ Len(extracted) = 2
  /\ extracted[1].ok
  /\ ~extracted[2].ok
  /\ pc = "done"

(***************************************************************************)
(* C3: with keep_going, every discovered file is handed to the extractor   *)
(* exactly once, in discovery order, and the sequence given to the         *)
(* renderer is exactly the successful extractions, in the same order.      *)
(***************************************************************************)
C3_KeepGoingPreservesOrder ==
  cli.keep_going =>
    /\ PathsOf(extracted) = SubSeq(files, 1, Len(extracted))
    /\ results = InfosOf(SelectSeq(extracted, Succeeded))
    /\ (pc \in {"render", "finish"} \/ (pc = "done" /\ files # <<>>)) =>
         PathsOf(extracted) = files
    /\ (pc = "finish" \/ (pc = "done" /\ files # <<>>)) =>
         /\ rendered = IF results = <<>> THEN <<>> ELSE <<results>>
         /\ stdout = IF results = <<>> THEN <<>>
                     ELSE Render(cli.format, InfosOf(SelectSeq(extracted, Succeeded)),
                                 cli.basic)
    /\ pc \notin {"finish", "done"} => rendered = <<>>

C3_Witness ==
  /\ cli.keep_going
  /\ pc = "done"
  /\ Len(files) = 3
  /\ extracted[1].ok
  /\ ~extracted[2].ok
  /\ extracted[3].ok
  /\ rendered = <<results>>
  /\ Len(results) = 2

(***************************************************************************)
(* C4: the exit code is 0 exactly when input was available, discovery      *)
(* returned a non-empty list without error and every discovered file was   *)
(* extracted; every other run exits with 1.                                *)
(***************************************************************************)
InputAvailable == ~(use_stdin /\ stdin.terminal)

FullSuccess ==
  /\ InputAvailable
  /\ Discovered.ok
  /\ Discovered.files # <<>>
  /\ \A i \in 1..Len(Discovered.files) : process_file(Discovered.files[i]).ok

C4_ExitCode ==
  /\ pc = "done" <=> exit_code # None
  /\ exit_code # None =>
       /\ exit_code \in {Some(0), Some(1)}
       /\ exit_code = Some(0) <=> FullSuccess

C4_Witness ==
  /\ exit_code = Some(0)
  /\ Len(files) >= 2
  /\ stdout # <<>>

(***************************************************************************)
(* C5: explicit paths, --keep-going, three paths of which exactly one does *)
(* not exist and the other two are valid audio files.                      *)
(***************************************************************************)
ValidAudio(path) == IsFile(path) /\ is_audio_file(path) /\ process_file(path).ok

MissingArgs == {i \in 1..Len(cli.files) : ~Exists(cli.files[i])}

C5_Case ==
  /\ cli.keep_going
  /\ Len(cli.files) = 3
  /\ Cardinality(MissingArgs) = 1
  /\ \A i \in 1..3 : i \notin MissingArgs => ValidAudio(cli.files[i])

ValidArgs == SelectSeq(cli.files, ValidAudio)

DirArgs == {i \in 1..Len(cli.files) : IsDir(cli.files[i])}

C6_Case ==
  /\ ~cli.recursive
  /\ DirArgs # {}
  /\ \A i \in 1..Len(cli.files) : i \notin DirArgs => IsFile(cli.files[i])

C6_DirectoryAbortsDiscovery ==
  C6_Case =>
    LET dir == cli.files[Min(DirArgs)]
        found == collect_audio_files(cli.files, cli.recursive)
    IN /\ ~found.ok
       /\ found.files = <<>>
       /\ IsPrefix(dir, found.msg)
       /\ files = <<>>
       /\ extracted = <<>>
       /\ stdout = <<>>
       /\ pc \notin {"process", "render", "finish"}
       /\ pc = "done" =>
            /\ exit_code = Some(1)
            /\ stderr = Eprintln(<<"Error: ">> \o DirectoryError(dir))

C6_Witness ==
  /\ C6_Case
  /\ Len(cli.files) = 3
  /\ cli.files[2] = DirD
  /\ ValidAudio(cli.files[1])
  /\ ValidAudio(cli.files[3])
  /\ pc = "done"

(***************************************************************************)
(* C7: in stdin mode, when every line is read, discovery does not fail:    *)
(* the list is the whitespace-stripped lines naming an audio file, in line *)
(* order; a line naming nothing that exists is warned about on the error   *)
(* stream, any other rejected line is passed over silently, and the lines  *)
(* after it are still handled.                                             *)
(***************************************************************************)
\* a line without its leading and trailing whitespace
Stripped(line) ==
  LET solid == {i \in 1..Len(line) : line[i] \notin {" ", "\t"}}
  IN IF solid = {} THEN <<>> ELSE SubSeq(line, Min(solid), Max(solid))

NamesAudioFile(line) ==
  /\ Stripped(line) \in RegularFiles
  /\ LET name == Stripped(line)
     IN name[Len(name)] \in {"mp3", "Mp3", "FLAC", "ogg", "wav"} /\ name[Len(name) - 1] = "."

NamesNothing(line) == Stripped(line) \notin RegularFiles \cup Directories

ExpectedStdinFiles ==
  LET kept == SelectSeq(stdin.lines, NamesAudioFile)
  IN [i \in 1..Len(kept) |-> Stripped(kept[i])]

ExpectedStdinWarnings ==
  LET gone == SelectSeq(stdin.lines, NamesNothing)
  IN Concat([i \in 1..Len(gone) |->
               <<"Warning: File not found: ">> \o Stripped(gone[i]) \o <<NL>>])

C7_Case ==
  /\ use_stdin
  /\ ~stdin.terminal
  /\ \A i \in 1..Len(stdin.lines) : stdin.lines[i] # ReadErr

C7_StdinNeverFails ==
  (C7_Case /\ pc \notin {"start", "collect"}) =>
    /\ Discovered.ok
    /\ Discovered.files = ExpectedStdinFiles
    /\ IsPrefix(ExpectedStdinWarnings, stderr)
    /\ ExpectedStdinFiles # <<>> =>
         /\ files = ExpectedStdinFiles
         /\ (pc = "process" /\ idx = 1) => stderr = ExpectedStdinWarnings
    /\ ExpectedStdinFiles = <<>> =>
         stderr = ExpectedStdinWarnings \o Eprintln(<<"Error: No audio files found">>)

C7_Witness ==
  /\ C7_Case
  /\ Len(stdin.lines) = 2
  /\ stdin.lines[1] = Gone
  /\ stdin.lines[2] = <<" ", "a", ".", "mp3", "\t">>
  /\ files = <<FileA>>
  /\ exit_code = Some(0)
  /\ stderr = StdinWarning(Gone)

(***************************************************************************)
(* C8: with --quiet nothing is ever written to the error stream.           *)
(***************************************************************************)
C8_QuietIsSilent == cli.quiet => stderr = <<>>

(***************************************************************************)
(* C9: output_csv prints one header row and one row per result, in order,  *)
(* each row of exactly 7 comma-separated fields, and no tag data.          *)
(***************************************************************************)
FieldCount(row) == Len(SplitOn(row, ","))

C9_CsvShape ==
  (cli.format = "Csv" /\ rendered # <<>>) =>
    LET rows == LinesOf(stdout)
    IN /\ Len(rows) = 1 + Len(results)
       /\ \A r \in 1..Len(rows) : FieldCount(rows[r]) = 7
       /\ \A i \in 1..Len(results) :
            /\ IsPrefix(results[i].file_path, rows[i + 1])
            /\ \A t \in 1..Len(results[i].tags) :
                 ~Contains(rows[i + 1], results[i].tags[t][2])

(***************************************************************************)
(* C10: output_text prints "duration: unknown" for exactly the items       *)
(* without a duration and a value with two decimals for the others.        *)
(***************************************************************************)
IsDurationLine(line) == line # <<>> /\ line[1] = "duration: "

C10_TextDuration ==
  (cli.format = "Text" /\ rendered # <<>>) =>
    LET shown == SelectSeq(LinesOf(stdout), IsDurationLine)
    IN /\ Len(shown) = Len(results)
       /\ \A i \in 1..Len(results) :
            IF results[i].duration_seconds = None
            THEN shown[i] = <<"duration: ", "unknown">>
            ELSE shown[i] = <<"duration: ">>
                              \o FmtFloatPrecision2(results[i].duration_seconds[1])
                              \o <<"s">>

====
